---- MODULE Spec2Model ----
(***************************************************************************)
(* Account / invitation / approval / audit-log state machine of the        *)
(* Express + SQLite backend (src/src/server.ts), specification Spec, and   *)
(* the browser's auth store and route guard beside it (src/src/store/      *)
(* auth.ts, ProtectedRoute), specifications ClientSpec and LogoutSpec.     *)
(* StartupSpec runs the server's module code from its first line to        *)
(* app.listen; ServicesSpec is the browser's services store                *)
(* (src/src/store/services.ts).                                            *)
(*                                                                         *)
(* The database tables are sets of rows.  A handler that contains an       *)
(* `await` (login, register, accept-invitation) is two actions: the part   *)
(* before the await, which reads the store and parks its locals in a bag   *)
(* of waiting requests, and the part after it, which runs on the locals    *)
(* read earlier.  Handlers without an await are one action.  A             *)
(* db.transaction() that throws leaves the tables as they were.            *)
(*                                                                         *)
(* Foreign keys are enforced, as better-sqlite3 builds SQLite with         *)
(* SQLITE_DEFAULT_FOREIGN_KEYS=1: an INSERT into user_logs for a userId    *)
(* that has no row, and a DELETE of a user that an invitation or a review  *)
(* still points at, throw.                                                 *)
(*                                                                         *)
(* Time is counted in days.  Columns that hold only a creation timestamp   *)
(* (createdAt, requestedAt, invitedAt, user_logs.timestamp) and the        *)
(* free-text details column are not represented.                           *)
(***************************************************************************)
EXTENDS Integers, FiniteSets, Sequences, Bags, TLC

VARIABLES
    users,          \* table users
    requests,       \* table approval_requests
    invitations,    \* table user_invitations
    logs,           \* table user_logs
    preferences,    \* table user_preferences
    seq,            \* sqlite_sequence: last AUTOINCREMENT id of each table
    clock,          \* new Date(), in days
    loginWait,      \* /api/login requests suspended in bcrypt.compare
    registerWait,   \* /api/register requests suspended in bcrypt.hash
    acceptWait,     \* /api/accept-invitation requests suspended in bcrypt.hash
    served,         \* number of requests the server has received
    last,           \* the response the latest step sent, if it sent one
    created,        \* bag of the tokens of accept requests answered 201
    store,          \* the browser's useAuthStore state
    loginCalls,     \* calls of the store's login awaiting axios.post
    route,          \* what the latest step's ProtectedRoute rendered, if any
    logoutCalls,    \* calls of the store's logout awaiting axios.post
    proc,           \* the server process: its environment and how far its
                    \* module code has run
    servicesStore,  \* state of the services store (useServicesStore)
    pending,        \* calls of the services store's async functions that
                    \* are waiting at an await
    calls,          \* number of calls the dashboard has made to the store
    audited         \* the action the latest step passed to logAction, if any

vars == <<users, requests, invitations, logs, preferences, seq, clock,
          loginWait, registerWait, acceptWait, served, last, created,
          store, loginCalls, route, logoutCalls, proc, servicesStore,
          pending, calls, audited>>

tables == <<users, requests, invitations, logs, preferences, seq>>

\* the state of the browser, which no server handler touches
dashboard == <<servicesStore, pending, calls, audited>>

client == <<store, loginCalls, route, logoutCalls, dashboard>>

-----------------------------------------------------------------------------
(* Bounds of the model *)

MaxRequests == 4       \* requests the server receives in one run
MaxClock == 8          \* last day the clock reaches

-----------------------------------------------------------------------------
(* Program constants and input alphabets *)

NULL == -1

\* const PASSWORD_PEPPER = process.env.PASSWORD_PEPPER || ""
PASSWORD_PEPPER == proc.pepper

BCRYPT_COST == 10

MIN_PASSWORD_LENGTH == 6

INVITATION_TTL == 7

Roles == {"admin", "write", "readonly"}

\* passwords requests carry: the default admin's (too short for a new
\* account) and one that passes the length check
Passwords == {"admin", "secret1"}

\* usernames /api/login is called with
LoginNames == {"", "admin", "alice"}

\* bodies /api/register is called with
RegisterInputs ==
    {[username |-> "alice", password |-> "secret1", email |-> "alice@x.com",
      role |-> "readonly"],
     [username |-> "bob", password |-> "secret1", email |-> "alice@x.com",
      role |-> "write"],
     [username |-> "bob", password |-> "secret1", email |-> "bob@x.com",
      role |-> "write"],
     [username |-> "bob", password |-> "admin", email |-> "bob@x.com",
      role |-> "admin"],
     [username |-> "admin", password |-> "secret1", email |-> "bob@x.com",
      role |-> "write"]}

\* bodies /api/invite-user is called with
InviteInputs ==
    {[username |-> "alice", email |-> "alice@x.com", role |-> "write"],
     [username |-> "bob", email |-> "bob@x.com", role |-> "admin"],
     [username |-> "bob", email |-> "nomail", role |-> "write"]}

DecideStatuses == {"approved", "rejected", "maybe"}

\* ids requests name: the rows a run creates and one that never exists
UserIds == 1..2

RequestIds == 1..2

InvitationIds == 1..2

Tokens == 1..2

-----------------------------------------------------------------------------
(* bcrypt, as the handlers use it *)

\* bcrypt.hash(PASSWORD_PEPPER + password, 10)
BcryptHash(pepper, password) ==
    [cost |-> BCRYPT_COST, of |-> <<pepper, password>>]

\* bcrypt.compare(PASSWORD_PEPPER + password, user.password)
BcryptCompare(pepper, password, hash) ==
    hash.of = <<pepper, password>>

-----------------------------------------------------------------------------
(* express-validator chains *)

NotEmpty(s) == Len(s) > 0

IsEmail(e) == e \in {"admin@example.com", "alice@x.com", "bob@x.com"}

LoginValid(username, password) ==
    NotEmpty(username) /\ NotEmpty(password)

RegisterValid(username, password, email, role) ==
    /\ NotEmpty(username)
    /\ Len(password) >= MIN_PASSWORD_LENGTH
    /\ IsEmail(email)
    /\ role \in {"readonly", "write"}

InviteValid(username, email, role) ==
    /\ NotEmpty(username)
    /\ IsEmail(email)
    /\ role \in {"readonly", "write", "admin"}

AcceptValid(password) ==
    Len(password) >= MIN_PASSWORD_LENGTH

DecideValid(status) ==
    status \in {"approved", "rejected"}

-----------------------------------------------------------------------------
(* Rows and queries *)

UserRow(id, username, password, email, role, isApproved, invitedBy) ==
    [id |-> id, username |-> username, password |-> password, email |-> email,
     role |-> role, isApproved |-> isApproved, lastLogin |-> NULL,
     invitedBy |-> invitedBy]

\* RequestRow that ignores the role asked for
RequestRowReadonly(id, userId, username, email, role) ==
    [id |-> id, userId |-> userId, username |-> username, email |-> email,
     requestedRole |-> "readonly", status |-> "pending", reviewedBy |-> NULL,
     reviewedAt |-> NULL]

RequestRow(id, userId, username, email, role) ==
    [id |-> id, userId |-> userId, username |-> username, email |-> email,
     requestedRole |-> role, status |-> "pending", reviewedBy |-> NULL,
     reviewedAt |-> NULL]

InvitationRow(id, email, username, role, token, invitedBy, expiresAt) ==
    [id |-> id, email |-> email, username |-> username, role |-> role,
     invitationToken |-> token, invitedBy |-> invitedBy,
     expiresAt |-> expiresAt, status |-> "pending"]

LogRow(id, userId, username, action, resource) ==
    [id |-> id, userId |-> userId, username |-> username, action |-> action,
     resource |-> resource]

\* SELECT ... FROM users WHERE id = ?
UsersById(id) == {u \in users : u.id = id}

\* SELECT * FROM users WHERE username = ?
UsersByName(username) == {u \in users : u.username = username}

\* SELECT id FROM users WHERE username = ? OR email = ?
ExistingUser(username, email) ==
    {u \in users : u.username = username \/ u.email = email}

\* the public fields a response carries
PublicUser(u, isApproved) ==
    [id |-> u.id, username |-> u.username, email |-> u.email,
     role |-> u.role, isApproved |-> isApproved]

\* res.status(status).json({message, user?}) sent by handler op, whose
\* locals at that point (the request body, or what was read before an
\* await) are kept in about
Response(op, status, message, user, about) ==
    [op |-> op, status |-> status, message |-> message, user |-> user,
     about |-> about]

\* a step that sends no response
NoResponse == Response("none", 0, "", {}, {})

\* LogInsertOk for a user_logs table that refuses every INSERT
LogInsertRefused(userId) == FALSE

\* LogInsertOk with foreign keys switched off
LogInsertUnchecked(userId) == TRUE

\* FOREIGN KEY (userId) REFERENCES users(id) on user_logs
LogInsertOk(userId) == UsersById(userId) # {}

\* INSERT INTO user_logs: the table with the row added
LogsPlus(userId, username, action, resource) ==
    logs \cup {LogRow(seq.logs + 1, userId, username, action, resource)}

\* no ProtectedRoute rendered
NoRoute == [requiredRole |-> "", shown |-> "none"]

-----------------------------------------------------------------------------
(* Startup: tables created, default admin inserted; the browser's store as
   create() builds it *)

\* the services store as create() builds it; "" stands for null
ServicesState ==
    [services |-> <<>>, selectedRegion |-> "us-east-1", selectedType |-> "",
     ecsFilter |-> "all", selectedEcsCluster |-> "", ecsClusters |-> <<>>]

\* the row the bootstrap inserts when no account is named "admin"
DefaultAdmin ==
    UserRow(1, "admin", BcryptHash(PASSWORD_PEPPER, "admin"),
            "admin@example.com", "admin", TRUE, NULL)

\* the server process: NODE_ENV, process.env.PASSWORD_PEPPER ("" when
\* absent), the PASSWORD_PEPPER constant once assigned, and the position
\* of its module code
Process(nodeEnv, env, pepper, pc) ==
    [nodeEnv |-> nodeEnv, env |-> env, pepper |-> pepper, pc |-> pc,
     exitedAt |-> ""]

Init ==
    /\ proc = Process("development", "pepper", "pepper", "listening")
    /\ users = {DefaultAdmin}
    /\ requests = {}
    /\ invitations = {}
    /\ logs = {}
    /\ preferences = {}
    /\ seq = [users |-> 1, requests |-> 0, invitations |-> 0, logs |-> 0]
    /\ clock = 0
    /\ loginWait = EmptyBag
    /\ registerWait = EmptyBag
    /\ acceptWait = EmptyBag
    /\ served = 0
    /\ last = NoResponse
    /\ created = EmptyBag
    /\ store = [user |-> {}, isLoading |-> FALSE, error |-> ""]
    /\ loginCalls = 0
    /\ route = NoRoute
    /\ logoutCalls = EmptyBag
    /\ servicesStore = ServicesState
    /\ pending = EmptyBag
    /\ calls = 0
    /\ audited = ""

-----------------------------------------------------------------------------
(* Requests *)

\* a request arrives: its handler runs up to its first await or to its end
Receive ==
    /\ proc.pc = "listening"
    /\ served < MaxRequests
    /\ served' = served + 1
    /\ UNCHANGED proc

\* a suspended handler runs from its await to its end
Resume == UNCHANGED <<served, proc>>

-----------------------------------------------------------------------------
(* POST /api/login *)

\* LoginOutcome with the approval check ahead of the password check
LoginOutcomeApprovalFirst(user, passwordMatch) ==
    IF ~user.isApproved THEN "pending_approval"
    ELSE IF ~passwordMatch THEN "invalid_credentials"
    ELSE "ok"

\* the order of the checks after bcrypt.compare
LoginOutcome(user, passwordMatch) ==
    IF ~passwordMatch THEN "invalid_credentials"
    ELSE IF ~user.isApproved THEN "pending_approval"
    ELSE "ok"

\* res.status(401).json({ message: "Invalid credentials" })
InvalidCredentials(about) ==
    Response("login", 401, "Invalid credentials", {}, about)

\* up to `await bcrypt.compare`
LoginStart(username, password) ==
    LET about == [username |-> username, password |-> password]
    IN  /\ Receive
        /\ IF ~LoginValid(username, password)
           THEN /\ last' = Response("login", 400, "validation", {}, about)
                /\ UNCHANGED loginWait
           ELSE IF UsersByName(username) = {}
           THEN /\ last' = InvalidCredentials(about)
                /\ UNCHANGED loginWait
           ELSE /\ \E user \in UsersByName(username) :
                     loginWait' = loginWait (+)
                         SetToBag({[user |-> user, password |-> password]})
                /\ last' = NoResponse
        /\ UNCHANGED <<tables, clock, registerWait, acceptWait, created, client>>

\* from the result of bcrypt.compare to the response
LoginFinish(w) ==
    /\ Resume
    /\ BagIn(w, loginWait)
    /\ loginWait' = loginWait (-) SetToBag({w})
    /\ LET user == w.user
           passwordMatch ==
               BcryptCompare(PASSWORD_PEPPER, w.password, user.password)
           outcome == LoginOutcome(user, passwordMatch)
       IN  IF outcome = "invalid_credentials"
           THEN /\ last' = InvalidCredentials(w)
                /\ UNCHANGED tables
           ELSE IF outcome = "pending_approval"
           THEN /\ last' = Response("login", 403, "Account pending approval",
                                    {PublicUser(user, FALSE)}, w)
                /\ UNCHANGED tables
           ELSE \* UPDATE users SET lastLogin, then INSERT INTO user_logs,
                \* outside any transaction
                /\ users' = {IF u.id = user.id
                             THEN [u EXCEPT !.lastLogin = clock] ELSE u
                             : u \in users}
                /\ IF LogInsertOk(user.id)
                   THEN /\ logs' = LogsPlus(user.id, user.username, "login",
                                            "auth")
                        /\ seq' = [seq EXCEPT !.logs = @ + 1]
                        /\ last' = Response("login", 200, "",
                               {PublicUser(user, user.isApproved)}, w)
                   ELSE /\ last' = Response("login", 500, "Server error", {},
                                            w)
                        /\ UNCHANGED <<logs, seq>>
                /\ UNCHANGED <<requests, invitations, preferences>>
    /\ UNCHANGED <<clock, registerWait, acceptWait, created, client>>

-----------------------------------------------------------------------------
(* POST /api/register *)

\* UsersUniqueOk for a users table whose email column is not UNIQUE
UsersUniqueByNameOnly(username, email) ==
    \A u \in users : u.username # username

\* UNIQUE(username), UNIQUE(email) on users
UsersUniqueOk(username, email) ==
    \A u \in users : u.username # username /\ u.email # email

\* up to `await bcrypt.hash`
RegisterStart(username, password, email, role) ==
    LET about == [username |-> username, password |-> password,
                  email |-> email, role |-> role]
    IN  /\ Receive
        /\ IF ~RegisterValid(username, password, email, role)
           THEN /\ last' = Response("register", 400, "validation", {}, about)
                /\ UNCHANGED registerWait
           ELSE IF ExistingUser(username, email) # {}
           THEN /\ last' = Response("register", 400,
                                    "Username or email already exists", {},
                                    about)
                /\ UNCHANGED registerWait
           ELSE /\ registerWait' = registerWait (+) SetToBag({about})
                /\ last' = NoResponse
        /\ UNCHANGED <<tables, clock, loginWait, acceptWait, created, client>>

\* the insertUser transaction and the response
RegisterFinish(w) ==
    /\ Resume
    /\ BagIn(w, registerWait)
    /\ registerWait' = registerWait (-) SetToBag({w})
    /\ IF UsersUniqueOk(w.username, w.email)
       THEN /\ LET userId == seq.users + 1
               IN  /\ users' = users \cup
                        {UserRow(userId, w.username,
                                 BcryptHash(PASSWORD_PEPPER, w.password),
                                 w.email, w.role, FALSE, NULL)}
                   /\ requests' = requests \cup
                        {RequestRow(seq.requests + 1, userId, w.username,
                                    w.email, w.role)}
                   /\ seq' = [seq EXCEPT !.users = userId,
                                         !.requests = @ + 1]
            /\ last' = Response("register", 201,
                   "User registered successfully. Awaiting approval.", {}, w)
            /\ UNCHANGED <<invitations, logs, preferences>>
       ELSE \* SQLITE_CONSTRAINT_UNIQUE is thrown, caught by the handler
            /\ last' = Response("register", 500, "Server error", {}, w)
            /\ UNCHANGED tables
    /\ UNCHANGED <<clock, loginWait, acceptWait, created, client>>

-----------------------------------------------------------------------------
(* POST /api/invite-user *)

\* UNIQUE(email), UNIQUE(username) on user_invitations
InvitationsUniqueOk(username, email) ==
    \A i \in invitations : i.username # username /\ i.email # email

\* InviteForbidden for a handler that trusts the adminId it is given
InviteForbiddenNever(admin) == FALSE

\* admin.role !== "admin"
InviteForbidden(admin) == admin.role # "admin"

InviteUser(username, email, role, adminId) ==
    LET about == [username |-> username, email |-> email, role |-> role,
                  adminId |-> adminId]
    IN  /\ Receive
        /\ IF ~InviteValid(username, email, role)
           THEN /\ last' = Response("invite", 400, "validation", {}, about)
                /\ UNCHANGED tables
           ELSE IF UsersById(adminId) = {}
           THEN /\ last' = Response("invite", 404, "Admin not found", {},
                                    about)
                /\ UNCHANGED tables
           ELSE IF \E admin \in UsersById(adminId) : InviteForbidden(admin)
           THEN /\ last' = Response("invite", 403,
                                    "Only admins can invite users", {}, about)
                /\ UNCHANGED tables
           ELSE IF ExistingUser(username, email) # {}
           THEN /\ last' = Response("invite", 400,
                                    "Username or email already exists", {},
                                    about)
                /\ UNCHANGED tables
           ELSE IF ~InvitationsUniqueOk(username, email)
           THEN \* SQLITE_CONSTRAINT_UNIQUE is thrown, caught by the handler
                /\ last' = Response("invite", 500, "Server error", {}, about)
                /\ UNCHANGED tables
           ELSE /\ LET id == seq.invitations + 1
                       \* crypto.randomBytes(32): a token no invitation had
                       invitationToken == id
                       expiresAt == clock + INVITATION_TTL
                   IN  invitations' = invitations \cup
                           {InvitationRow(id, email, username, role,
                                          invitationToken, adminId, expiresAt)}
                \* the admin row was selected as (id, role): admin.username
                \* is undefined and the log row gets "Unknown"
                /\ logs' = LogsPlus(adminId, "Unknown", "invite_user",
                                    "user_management")
                /\ seq' = [seq EXCEPT !.invitations = @ + 1, !.logs = @ + 1]
                /\ last' = Response("invite", 201,
                       "User invitation created successfully", {}, about)
                /\ UNCHANGED <<users, requests, preferences>>
        /\ UNCHANGED <<clock, loginWait, registerWait, acceptWait, created,
                       client>>

-----------------------------------------------------------------------------
(* POST /api/accept-invitation *)

\* SELECT * FROM user_invitations WHERE invitationToken = ? AND status = 'pending'
PendingInvitations(token) ==
    {i \in invitations : i.invitationToken = token /\ i.status = "pending"}

\* Expired read off the stored status instead of the clock
ExpiredByStatus(invitation, now) == invitation.status = "expired"

\* expiresAt < new Date()
Expired(invitation, now) == invitation.expiresAt < now

\* up to `await bcrypt.hash`
AcceptStart(token, password) ==
    LET about == [token |-> token, password |-> password]
    IN  /\ Receive
        /\ IF ~AcceptValid(password)
           THEN /\ last' = Response("accept", 400, "validation", {}, about)
                /\ UNCHANGED acceptWait
           ELSE IF PendingInvitations(token) = {}
           THEN /\ last' = Response("accept", 404,
                                    "Invalid or expired invitation", {},
                                    about)
                /\ UNCHANGED acceptWait
           ELSE IF \E i \in PendingInvitations(token) : Expired(i, clock)
           THEN /\ last' = Response("accept", 400, "Invitation has expired",
                                    {}, about)
                /\ UNCHANGED acceptWait
           ELSE /\ \E invitation \in PendingInvitations(token) :
                     acceptWait' = acceptWait (+)
                         SetToBag({[token |-> token, password |-> password,
                                    invitation |-> invitation]})
                /\ last' = NoResponse
        /\ UNCHANGED <<tables, clock, loginWait, registerWait, created, client>>

\* the createUser transaction and the response
AcceptFinish(w) ==
    /\ Resume
    /\ BagIn(w, acceptWait)
    /\ acceptWait' = acceptWait (-) SetToBag({w})
    /\ LET invitation == w.invitation
       IN  IF UsersUniqueOk(invitation.username, invitation.email)
           THEN /\ LET userId == seq.users + 1
                   IN  /\ users' = users \cup
                            {UserRow(userId, invitation.username,
                                     BcryptHash(PASSWORD_PEPPER, w.password),
                                     invitation.email, invitation.role, TRUE,
                                     invitation.invitedBy)}
                       /\ logs' = LogsPlus(userId, invitation.username,
                                           "accept_invitation",
                                           "user_management")
                       /\ seq' = [seq EXCEPT !.users = userId,
                                             !.logs = @ + 1]
                \* UPDATE user_invitations SET status = 'accepted' WHERE id = ?
                /\ invitations' =
                       {IF i.id = invitation.id
                        THEN [i EXCEPT !.status = "accepted"] ELSE i
                        : i \in invitations}
                /\ created' = created (+) SetToBag({w.token})
                /\ last' = Response("accept", 201,
                       "Account created successfully", {}, w)
                /\ UNCHANGED <<requests, preferences>>
           ELSE \* SQLITE_CONSTRAINT_UNIQUE is thrown, caught by the handler
                /\ last' = Response("accept", 500, "Server error", {}, w)
                /\ UNCHANGED <<tables, created>>
    /\ UNCHANGED <<clock, loginWait, registerWait, client>>

-----------------------------------------------------------------------------
(* DELETE /api/invitations/:id *)

InvitationsById(id) == {i \in invitations : i.id = id}

DeleteInvitation(id, adminId) ==
    LET about == [id |-> id, adminId |-> adminId]
    IN  /\ Receive
        /\ IF UsersById(adminId) = {}
           THEN /\ last' = Response("delete_invitation", 404,
                                    "Admin not found", {}, about)
                /\ UNCHANGED tables
           ELSE IF \E admin \in UsersById(adminId) : admin.role # "admin"
           THEN /\ last' = Response("delete_invitation", 403,
                                    "Only admins can delete invitations", {},
                                    about)
                /\ UNCHANGED tables
           ELSE IF InvitationsById(id) = {}
           THEN /\ last' = Response("delete_invitation", 404,
                                    "Invitation not found", {}, about)
                /\ UNCHANGED tables
           ELSE /\ invitations' = invitations \ InvitationsById(id)
                /\ \E admin \in UsersById(adminId) :
                     logs' = LogsPlus(adminId, admin.username,
                                      "delete_invitation", "user_management")
                /\ seq' = [seq EXCEPT !.logs = @ + 1]
                /\ last' = Response("delete_invitation", 200,
                       "Invitation deleted successfully", {}, about)
                /\ UNCHANGED <<users, requests, preferences>>
        /\ UNCHANGED <<clock, loginWait, registerWait, acceptWait, created,
                       client>>

-----------------------------------------------------------------------------
(* POST /api/approval-requests/:id *)

RequestsById(id) == {r \in requests : r.id = id}

\* The updateRequest transaction runs to its end only when the two rows its
\* log statement dereferences exist: reviewer.username and request.username
\* throw a TypeError on undefined (and reviewedBy is a foreign key into
\* users); the transaction then rolls back and the handler answers 500.
DecideCommits(id, reviewerId) ==
    RequestsById(id) # {} /\ UsersById(reviewerId) # {}

\* ApproveUser as an UPDATE that has lost its WHERE clause
ApproveEveryUser(userId) ==
    {[u EXCEPT !.isApproved = TRUE] : u \in users}

\* UPDATE users SET isApproved = 1 WHERE id = ?: the table afterwards
ApproveUser(userId) ==
    {IF u.id = userId THEN [u EXCEPT !.isApproved = TRUE] ELSE u
     : u \in users}

DecideRequest(id, status, reviewerId) ==
    LET about == [id |-> id, status |-> status, reviewerId |-> reviewerId]
    IN  /\ Receive
        /\ IF ~DecideValid(status)
           THEN /\ last' = Response("decide", 400, "validation", {}, about)
                /\ UNCHANGED tables
           ELSE IF ~DecideCommits(id, reviewerId)
           THEN /\ last' = Response("decide", 500, "Server error", {}, about)
                /\ UNCHANGED tables
           ELSE \* UPDATE approval_requests SET status, reviewedBy, reviewedAt
                /\ requests' =
                       {IF r.id = id
                        THEN [r EXCEPT !.status = status,
                                       !.reviewedBy = reviewerId,
                                       !.reviewedAt = clock]
                        ELSE r : r \in requests}
                /\ IF status = "approved"
                   THEN \E request \in RequestsById(id) :
                          users' = ApproveUser(request.userId)
                   ELSE UNCHANGED users
                /\ \E reviewer \in UsersById(reviewerId) :
                     logs' = LogsPlus(reviewerId, reviewer.username,
                                IF status = "approved" THEN "approve_user"
                                ELSE "reject_user", "user_management")
                /\ seq' = [seq EXCEPT !.logs = @ + 1]
                /\ last' = Response("decide", 200,
                       IF status = "approved"
                       THEN "Request approved successfully"
                       ELSE "Request rejected successfully", {}, about)
                /\ UNCHANGED <<invitations, preferences>>
        /\ UNCHANGED <<clock, loginWait, registerWait, acceptWait, created,
                       client>>

-----------------------------------------------------------------------------
(* POST /api/log-action *)

LogAction(userId, username, action, resource) ==
    LET about == [userId |-> userId, username |-> username,
                  action |-> action, resource |-> resource]
    IN  /\ Receive
        /\ IF LogInsertOk(userId)
           THEN /\ logs' = LogsPlus(userId, username, action, resource)
                /\ seq' = [seq EXCEPT !.logs = @ + 1]
                /\ last' = Response("log_action", 201,
                                    "Action logged successfully", {}, about)
           ELSE /\ last' = Response("log_action", 500, "Server error", {},
                                    about)
                /\ UNCHANGED <<logs, seq>>
        /\ UNCHANGED <<users, requests, invitations, preferences, clock,
                       loginWait, registerWait, acceptWait, created, client>>

-----------------------------------------------------------------------------
(* DELETE /api/users/:id *)

\* DELETE FROM users WHERE id = ? passes the foreign keys that still point
\* at the user once its own logs and approval requests are deleted
UserDeleteOk(id) ==
    /\ \A r \in requests : r.userId # id => r.reviewedBy # id
    /\ \A i \in invitations : i.invitedBy # id

\* LogsWithout for a DELETE FROM user_logs that has no WHERE clause
LogsWithoutAny(userId) == {}

\* DELETE FROM user_logs WHERE userId = ?: the rows that stay
LogsWithout(userId) == {l \in logs : l.userId # userId}

\* IsDefaultAdmin for a handler that protects no account by name
IsDefaultAdminNever(user) == FALSE

\* user.username === "admin"
IsDefaultAdmin(user) == user.username = "admin"

DeleteUser(id, adminId) ==
    LET about == [id |-> id, adminId |-> adminId]
    IN  /\ Receive
        /\ IF UsersById(adminId) = {}
           THEN /\ last' = Response("delete_user", 404, "Admin not found",
                                    {}, about)
                /\ UNCHANGED tables
           ELSE IF \E admin \in UsersById(adminId) : admin.role # "admin"
           THEN /\ last' = Response("delete_user", 403,
                                    "Only admins can delete users", {}, about)
                /\ UNCHANGED tables
           ELSE IF UsersById(id) = {}
           THEN /\ last' = Response("delete_user", 404, "User not found", {},
                                    about)
                /\ UNCHANGED tables
           ELSE IF \E user \in UsersById(id) : IsDefaultAdmin(user)
           THEN /\ last' = Response("delete_user", 403,
                                    "Cannot delete the default admin user",
                                    {}, about)
                /\ UNCHANGED tables
           ELSE IF id = adminId
           THEN /\ last' = Response("delete_user", 403,
                                    "Cannot delete your own account", {},
                                    about)
                /\ UNCHANGED tables
           ELSE IF ~UserDeleteOk(id)
           THEN \* SQLITE_CONSTRAINT_FOREIGNKEY is thrown, the transaction
                \* rolls back
                /\ last' = Response("delete_user", 500, "Server error", {},
                                    about)
                /\ UNCHANGED tables
           ELSE /\ users' = users \ UsersById(id)
                /\ requests' = {r \in requests : r.userId # id}
                /\ preferences' = {p \in preferences : p.userId # id}
                /\ \E admin \in UsersById(adminId) :
                     logs' = LogsWithout(id) \cup
                             {LogRow(seq.logs + 1, adminId, admin.username,
                                     "delete_user", "user_management")}
                /\ seq' = [seq EXCEPT !.logs = @ + 1]
                /\ last' = Response("delete_user", 200,
                                    "User deleted successfully", {}, about)
                /\ UNCHANGED invitations
        /\ UNCHANGED <<clock, loginWait, registerWait, acceptWait, created,
                       client>>

-----------------------------------------------------------------------------

Tick ==
    /\ \E d \in {INVITATION_TTL, INVITATION_TTL + 1} :
         /\ clock + d <= MaxClock
         /\ clock' = clock + d
    /\ last' = NoResponse
    /\ UNCHANGED <<tables, loginWait, registerWait, acceptWait, served,
                   proc, created, client>>

\* some suspended request resumes
LoginResume == \E w \in BagToSet(loginWait) : LoginFinish(w)

RegisterResume == \E w \in BagToSet(registerWait) : RegisterFinish(w)

AcceptResume == \E w \in BagToSet(acceptWait) : AcceptFinish(w)

Next ==
    \/ \E u \in LoginNames, p \in Passwords : LoginStart(u, p)
    \/ LoginResume
    \/ \E x \in RegisterInputs :
         RegisterStart(x.username, x.password, x.email, x.role)
    \/ RegisterResume
    \/ \E x \in InviteInputs, a \in UserIds :
         InviteUser(x.username, x.email, x.role, a)
    \/ \E t \in Tokens, p \in Passwords : AcceptStart(t, p)
    \/ AcceptResume
    \/ \E i \in InvitationIds, a \in UserIds : DeleteInvitation(i, a)
    \/ \E i \in RequestIds, s \in DecideStatuses, a \in UserIds :
         DecideRequest(i, s, a)
    \/ \E i \in UserIds : LogAction(i, "alice", "logout", "auth")
    \/ \E i \in UserIds, a \in UserIds : DeleteUser(i, a)
    \/ Tick

Spec == Init /\ [][Next]_vars

-----------------------------------------------------------------------------
(* The browser: useAuthStore (src/src/store/auth.ts) and ProtectedRoute.
   store.user is {} for null or holds the one user object; store.error is ""
   for null.  The store's login is two steps, the call up to the awaited
   axios.post and the code after it; the response the second step works on
   is the one the server sent in the step before.  A browser step resets
   last, as it sends no response, and route, unless it renders one. *)

\* usernames the login form is submitted with
StoreLoginNames == LoginNames \cup {"bob"}

\* the registrations that happen beside the browser's logins: one for the
\* readonly role and one for the write role
StoreRegisterInputs ==
    {x \in RegisterInputs :
        \/ x.username = "alice"
        \/ x.username = "bob" /\ x.password = "secret1" /\ x.email = "bob@x.com"}

\* the requiredRole prop: "" is null
RequiredRoles == Roles \cup {""}

\* error.response.data.message || fallback: the body of a validation answer
\* has errors and no message
ErrorMessage(response, fallback) ==
    IF response.message \in {"", "validation"} THEN fallback
    ELSE response.message

\* LoginSettled for a catch block without the 403 branch
LoginSettledNoPending(s, response) ==
    IF response.status = 200
    THEN [s EXCEPT !.user = response.user, !.isLoading = FALSE]
    ELSE [s EXCEPT !.isLoading = FALSE,
                   !.error = ErrorMessage(response, "Login failed")]

\* the store after login's awaited axios.post has settled with a response
LoginSettled(s, response) ==
    IF response.status = 200
    THEN [s EXCEPT !.user = response.user, !.isLoading = FALSE]
    ELSE IF response.status = 403 /\ response.user # {}
    THEN [s EXCEPT !.user = response.user, !.isLoading = FALSE,
                   !.error = ErrorMessage(response, "Login failed")]
    ELSE [s EXCEPT !.isLoading = FALSE,
                   !.error = ErrorMessage(response, "Login failed")]

\* login, up to `await axios.post`; the request is one of those the server
\* has yet to receive
StoreLogin ==
    /\ loginCalls + served < MaxRequests
    /\ loginCalls' = loginCalls + 1
    /\ store' = [store EXCEPT !.isLoading = TRUE, !.error = ""]
    /\ route' = NoRoute
    /\ last' = NoResponse
    /\ UNCHANGED <<tables, clock, loginWait, registerWait, acceptWait, served,
                   proc, created, logoutCalls,
                   dashboard>>

\* login, from the response of axios.post on
StoreLoginSettled ==
    /\ loginCalls > 0
    /\ last.op = "login"
    /\ loginCalls' = loginCalls - 1
    /\ store' = LoginSettled(store, last)
    /\ route' = NoRoute
    /\ last' = NoResponse
    /\ UNCHANGED <<tables, clock, loginWait, registerWait, acceptWait, served,
                   proc, created, logoutCalls,
                   dashboard>>

\* login, when axios.post fails and no response has come in
StoreLoginFailed ==
    /\ loginCalls > 0
    /\ last.op # "login"
    /\ loginCalls' = loginCalls - 1
    /\ store' = [store EXCEPT !.isLoading = FALSE, !.error = "Login failed"]
    /\ route' = NoRoute
    /\ last' = NoResponse
    /\ UNCHANGED <<tables, clock, loginWait, registerWait, acceptWait, served,
                   proc, created, logoutCalls,
                   dashboard>>

\* what ProtectedRoute returns: the children, or the path of its <Navigate>
ProtectedRoute(user, requiredRole) ==
    IF user = {} THEN "/"
    ELSE IF \E u \in user : ~u.isApproved THEN "/pending"
    ELSE IF /\ requiredRole # ""
            /\ \E u \in user :
                 /\ u.role # requiredRole
                 /\ ~(requiredRole = "write" /\ u.role = "admin")
    THEN "/dashboard"
    ELSE "children"

\* a route wrapped in <ProtectedRoute requiredRole=...> is rendered
Render(requiredRole) ==
    /\ route' = [requiredRole |-> requiredRole,
                 shown |-> ProtectedRoute(store.user, requiredRole)]
    /\ route' # route
    /\ last' = NoResponse
    /\ UNCHANGED <<tables, clock, loginWait, registerWait, acceptWait, served,
                   proc, created, store, loginCalls, logoutCalls,
                   dashboard>>

\* LogoutSettled for a logout that clears the user inside its try block
LogoutSettledInTry(s, posted) ==
    IF posted THEN [s EXCEPT !.user = {}] ELSE s

\* the store after logout's try/catch: set({ user: null }), whether the
\* awaited post succeeded or threw
LogoutSettled(s, posted) == [s EXCEPT !.user = {}]

\* the body of the log-action request a logout call sends for user u
LogoutBody(u) ==
    [userId |-> u.id, username |-> u.username, action |-> "logout",
     resource |-> "auth"]

\* logout, up to `await axios.post`, or to its end when no user is held;
\* the request is one of those the server has yet to receive
StoreLogout ==
    /\ IF store.user = {}
       THEN UNCHANGED logoutCalls
       ELSE /\ BagCardinality(logoutCalls) + served < MaxRequests
            /\ logoutCalls' = logoutCalls (+) SetToBag(store.user)
    /\ route' = NoRoute
    /\ last' = NoResponse
    /\ UNCHANGED <<tables, clock, loginWait, registerWait, acceptWait, served,
                   proc, created, store, loginCalls,
                   dashboard>>

\* the log-action request of a logout call reaches the server
LogoutArrives ==
    \E u \in BagToSet(logoutCalls) :
        LogAction(u.id, u.username, "logout", "auth")

\* logout, from the response of axios.post on: 201, or 500 caught
StoreLogoutSettled ==
    /\ last.op = "log_action"
    /\ \E u \in BagToSet(logoutCalls) :
         /\ last.about = LogoutBody(u)
         /\ logoutCalls' = logoutCalls (-) SetToBag({u})
    /\ store' = LogoutSettled(store, last.status = 201)
    /\ route' = NoRoute
    /\ last' = NoResponse
    /\ UNCHANGED <<tables, clock, loginWait, registerWait, acceptWait, served,
                   proc, created, loginCalls,
                   dashboard>>

\* logout, when axios.post fails and no response has come in
StoreLogoutFailed ==
    /\ last.op # "log_action"
    /\ \E u \in BagToSet(logoutCalls) :
         logoutCalls' = logoutCalls (-) SetToBag({u})
    /\ store' = LogoutSettled(store, FALSE)
    /\ route' = NoRoute
    /\ last' = NoResponse
    /\ UNCHANGED <<tables, clock, loginWait, registerWait, acceptWait, served,
                   proc, created, loginCalls,
                   dashboard>>

ClientNext ==
    \/ StoreLogin
    \/ \E u \in StoreLoginNames, p \in Passwords : LoginStart(u, p)
    \/ LoginResume
    \/ StoreLoginSettled
    \/ StoreLoginFailed
    \/ \E r \in RequiredRoles : Render(r)
    \/ \E x \in StoreRegisterInputs :
         RegisterStart(x.username, x.password, x.email, x.role)
    \/ RegisterResume
    \/ \E i \in RequestIds : DecideRequest(i, "approved", 1)
    \/ \E i \in UserIds : DeleteUser(i, 1)

ClientSpec == Init /\ [][ClientNext]_vars

\* the browser signing in and out against the server, while accounts are
\* registered and the admin deletes them
LogoutNext ==
    \/ StoreLogin
    \/ \E n \in StoreLoginNames, p \in Passwords : LoginStart(n, p)
    \/ LoginResume
    \/ StoreLoginSettled
    \/ StoreLoginFailed
    \/ \E x \in StoreRegisterInputs :
          RegisterStart(x.username, x.password, x.email, x.role)
    \/ RegisterResume
    \/ \E i \in UserIds : DeleteUser(i, 1)
    \/ StoreLogout
    \/ LogoutArrives
    \/ StoreLogoutSettled
    \/ StoreLogoutFailed

LogoutSpec == Init /\ [][LogoutNext]_vars

-----------------------------------------------------------------------------
(* The server's module code, from its first line to app.listen *)

NodeEnvs == {"development", "staging", "production"}

\* process.env.PASSWORD_PEPPER when the process starts: absent or empty, or
\* set
EnvPeppers == {"", "pepper"}

\* what fetching and parsing the secret comes to: a failure, or a JSON object
\* without the key PASSWORD_PEPPER, with an empty one, or with one
SecretOutcomes ==
    {"fetch_error", "no_string", "bad_json", "no_pepper_key", "empty_pepper",
     "pepper"}

\* nodeEnv === "staging" || nodeEnv === "production"
SecretsEnv(nodeEnv) == nodeEnv \in {"staging", "production"}

\* process.exit(1)
Exit(at) == [proc EXCEPT !.pc = "exited", !.exitedAt = at]

\* PepperMissing for a check that looks at production only
PepperMissingInProduction(nodeEnv, pepper) ==
    nodeEnv = "production" /\ pepper = ""

\* (nodeEnv === "staging" || nodeEnv === "production") && !PASSWORD_PEPPER
PepperMissing(nodeEnv, pepper) == SecretsEnv(nodeEnv) /\ pepper = ""

\* the variables the module code leaves alone before the database is opened
Untouched ==
    UNCHANGED <<tables, clock, loginWait, registerWait, acceptWait, served,
                last, created, client>>

\* the secrets block: fetch, parse, inject into process.env
LoadSecrets ==
    /\ proc.pc = "start"
    /\ IF SecretsEnv(proc.nodeEnv)
       THEN \E o \in SecretOutcomes :
              proc' = IF o \in {"fetch_error", "no_string", "bad_json"}
                      THEN Exit("secrets")
                      ELSE [proc EXCEPT
                                !.env = IF o = "no_pepper_key" THEN @
                                        ELSE IF o = "empty_pepper" THEN ""
                                        ELSE "pepper",
                                !.pc = "loaded"]
       ELSE proc' = [proc EXCEPT !.pc = "loaded"]
    /\ Untouched

\* PASSWORD_PEPPER is assigned and enforced
CheckPepper ==
    /\ proc.pc = "loaded"
    /\ LET pepper == proc.env
       IN  proc' = IF PepperMissing(proc.nodeEnv, pepper)
                   THEN [Exit("pepper") EXCEPT !.pepper = pepper]
                   ELSE [proc EXCEPT !.pepper = pepper, !.pc = "checked"]
    /\ Untouched

\* the database is opened, its tables created and the default admin
\* inserted, or the process exits on a failure
OpenDatabase ==
    /\ proc.pc = "checked"
    /\ \/ /\ proc' = [proc EXCEPT !.pc = "opened"]
          /\ users' = {DefaultAdmin}
          /\ seq' = [seq EXCEPT !.users = 1]
          /\ UNCHANGED <<requests, invitations, logs, preferences>>
       \/ /\ proc' = Exit("database")
          /\ UNCHANGED tables
    /\ UNCHANGED <<clock, loginWait, registerWait, acceptWait, served, last,
                   created, client>>

\* app.listen(port)
Listen ==
    /\ proc.pc = "opened"
    /\ proc' = [proc EXCEPT !.pc = "listening"]
    /\ Untouched

\* a process started in any environment, with or without a pepper in it,
\* and no database yet
StartupInit ==
    /\ proc \in {Process(e, p, "", "start") : e \in NodeEnvs, p \in EnvPeppers}
    /\ users = {}
    /\ requests = {}
    /\ invitations = {}
    /\ logs = {}
    /\ preferences = {}
    /\ seq = [users |-> 0, requests |-> 0, invitations |-> 0, logs |-> 0]
    /\ clock = 0
    /\ loginWait = EmptyBag
    /\ registerWait = EmptyBag
    /\ acceptWait = EmptyBag
    /\ served = 0
    /\ last = NoResponse
    /\ created = EmptyBag
    /\ store = [user |-> {}, isLoading |-> FALSE, error |-> ""]
    /\ loginCalls = 0
    /\ route = NoRoute
    /\ logoutCalls = EmptyBag
    /\ servicesStore = ServicesState
    /\ pending = EmptyBag
    /\ calls = 0
    /\ audited = ""

StartupNext ==
    \/ LoadSecrets
    \/ CheckPepper
    \/ OpenDatabase
    \/ Listen
    \/ \E n \in LoginNames, p \in Passwords : LoginStart(n, p)
    \/ LoginResume
    \/ \E x \in StoreRegisterInputs :
          RegisterStart(x.username, x.password, x.email, x.role)
    \/ RegisterResume

StartupSpec == StartupInit /\ [][StartupNext]_vars

-----------------------------------------------------------------------------
(* The browser: the services store. The AWS account is taken to hold what
   the mock data lists; each AWS call either succeeds or fails. *)

MaxCalls == 3

Regions == {"us-east-1", "ap-south-1"}

EcsFilters == {"all", "ecs-ec2", "ecs-fargate"}

\* the clusters the dashboard selects; "" stands for null
ClusterNames == {"", "default", "DelayedJobEcsEc2Cluster"}

\* an AWSService entry; desiredCount is NULL where the entry has none
AWSService(id, type, region, status, desiredCount, cluster, launchType) ==
    [id |-> id, type |-> type, region |-> region, status |-> status,
     desiredCount |-> desiredCount, originalCount |-> desiredCount,
     cluster |-> cluster, launchType |-> launchType]

mockServices ==
    [r \in Regions |->
       IF r = "us-east-1"
       THEN <<AWSService("i-1234567890abcdef0", "ec2", r, "running", NULL,
                         "", ""),
              AWSService("i-0987654321fedcba0", "ec2", r, "stopped", NULL,
                         "", ""),
              AWSService("web-app-1", "ecs", r, "running", 2, "default",
                         "FARGATE"),
              AWSService("web-app-2", "ecs", r, "running", 1, "default",
                         "EC2"),
              AWSService("main-alb", "alb", r, "running", NULL, "", "")>>
       ELSE <<AWSService("i-abcdef1234567890", "ec2", r, "running", NULL,
                         "", ""),
              AWSService("web-app-india-1", "ecs", r, "running", 2,
                         "default", "FARGATE"),
              AWSService("batch-processor", "ecs", r, "running", 1,
                         "DelayedJobEcsEc2Cluster", "EC2"),
              AWSService("india-alb", "alb", r, "running", NULL, "", "")>>]

mockEcsClusters ==
    [r \in Regions |->
       IF r = "us-east-1" THEN <<"default", "production", "staging">>
       ELSE <<"default", "DelayedJobEcsEc2Cluster", "production-india">>]

\* the filter on launchType that both paths of loadServices apply
EcsFilterKeeps(ecsFilter, service) ==
    \/ ecsFilter = "all"
    \/ ecsFilter = "ecs-ec2" /\ service.launchType = "EC2"
    \/ ecsFilter = "ecs-fargate" /\ service.launchType = "FARGATE"

\* a call of an async function of the store, waiting at an await: the
\* state it read with get() when it started and the service it was given
Call(fn, s, service) ==
    [fn |-> fn, selectedRegion |-> s.selectedRegion,
     selectedEcsCluster |-> s.selectedEcsCluster,
     ecsClusters |-> s.ecsClusters, selectedType |-> s.selectedType,
     ecsFilter |-> s.ecsFilter, service |-> service]

\* loadServices, catch branch: the mock data of the region, filtered
MockLoaded(l) ==
    LET all == mockServices[l.selectedRegion]
        byType == IF l.selectedType # ""
                  THEN SelectSeq(all, LAMBDA x : x.type = l.selectedType)
                  ELSE all
        byCluster == IF l.selectedEcsCluster # ""
                     THEN SelectSeq(byType, LAMBDA x :
                              x.type # "ecs" \/ x.cluster = l.selectedEcsCluster)
                     ELSE byType
    IN  IF l.ecsFilter # "all"
        THEN SelectSeq(byCluster, LAMBDA x :
                 x.type # "ecs" \/ EcsFilterKeeps(l.ecsFilter, x))
        ELSE byCluster

\* ListServices and DescribeServices for each cluster of a list in turn
RECURSIVE EcsOfClusters(_, _)
EcsOfClusters(clusters, l) ==
    IF clusters = <<>> THEN <<>>
    ELSE SelectSeq(mockServices[l.selectedRegion], LAMBDA x :
             /\ x.type = "ecs"
             /\ x.cluster = Head(clusters)
             /\ EcsFilterKeeps(l.ecsFilter, x))
         \o EcsOfClusters(Tail(clusters), l)

\* loadServices, try branch: EC2 instances, ECS services of the selected
\* cluster or of every known cluster, load balancers, each entry with
\* region: selectedRegion
AwsLoaded(l) ==
    LET account == mockServices[l.selectedRegion]
        OfType(t) == IF l.selectedType \in {"", t}
                     THEN SelectSeq(account, LAMBDA x : x.type = t)
                     ELSE <<>>
        ecs == IF l.selectedType \notin {"", "ecs"} THEN <<>>
               ELSE IF l.selectedEcsCluster # ""
               THEN EcsOfClusters(<<l.selectedEcsCluster>>, l)
               ELSE EcsOfClusters(l.ecsClusters, l)
    IN  [i \in DOMAIN (OfType("ec2") \o ecs \o OfType("alb")) |->
           [(OfType("ec2") \o ecs \o OfType("alb"))[i]
               EXCEPT !.region = l.selectedRegion]]

\* what the store calls leave alone
OutsideDashboard ==
    UNCHANGED <<tables, clock, loginWait, registerWait, acceptWait, served,
                proc, last, created, store, loginCalls, route, logoutCalls>>

setSelectedRegion(region) ==
    /\ calls < MaxCalls
    /\ calls' = calls + 1
    /\ LET s == [servicesStore EXCEPT !.selectedRegion = region]
       IN  /\ servicesStore' = s
           /\ pending' = pending (+) SetToBag({Call("loadServices", s, <<>>)})
    /\ audited' = "change_region"
    /\ OutsideDashboard

setSelectedEcsCluster(cluster) ==
    /\ calls < MaxCalls
    /\ calls' = calls + 1
    /\ LET s == [servicesStore EXCEPT !.selectedEcsCluster = cluster]
       IN  /\ servicesStore' = s
           /\ pending' = pending (+) SetToBag({Call("loadServices", s, <<>>)})
    /\ audited' = IF cluster # "" THEN "select_cluster" ELSE ""
    /\ OutsideDashboard

\* up to the first await of loadEcsClusters
setEcsFilter(filter) ==
    /\ calls < MaxCalls
    /\ calls' = calls + 1
    /\ LET s == [servicesStore EXCEPT !.ecsFilter = filter]
       IN  /\ servicesStore' = s
           /\ pending' = pending (+)
                             SetToBag({Call("loadEcsClusters", s, <<>>)})
    /\ audited' = "filter_services"
    /\ OutsideDashboard

\* loadEcsClusters from its awaits on, then the loadServices that
\* setEcsFilter chains to it, up to its first await
loadEcsClusters ==
    \E l \in BagToSet(pending), ok \in BOOLEAN :
        /\ l.fn = "loadEcsClusters"
        /\ LET listed == mockEcsClusters[l.selectedRegion]
               clusters ==
                   IF ok /\ l.ecsFilter = "ecs-ec2"
                   THEN SelectSeq(listed, LAMBDA c :
                            c = "DelayedJobEcsEc2Cluster")
                   ELSE listed
               s == [servicesStore EXCEPT
                        !.ecsClusters = clusters,
                        !.selectedEcsCluster =
                            IF Len(clusters) > 0 /\ @ = ""
                            THEN clusters[1] ELSE @]
           IN  /\ servicesStore' = s
               /\ pending' = (pending (-) SetToBag({l})) (+)
                                 SetToBag({Call("loadServices", s, <<>>)})
        /\ audited' = "load_clusters"
        /\ UNCHANGED calls
        /\ OutsideDashboard

\* loadServices from its awaits on: set({ services })
loadServices ==
    \E l \in BagToSet(pending), ok \in BOOLEAN :
        /\ l.fn = "loadServices"
        /\ servicesStore' =
               [servicesStore EXCEPT
                   !.services = IF ok THEN AwsLoaded(l) ELSE MockLoaded(l)]
        /\ pending' = pending (-) SetToBag({l})
        /\ audited' = "load_services"
        /\ UNCHANGED calls
        /\ OutsideDashboard

\* Dashboard's handleServiceAction: the service with the status, and the
\* desiredCount, it is to have
handleServiceAction(service) ==
    LET newStatus == IF service.status = "running" THEN "stopped"
                     ELSE "running"
    IN  [service EXCEPT
            !.status = newStatus,
            !.desiredCount = IF newStatus = "stopped" THEN 0
                             ELSE service.originalCount]

\* the services list after updateService's local update
UpdatedLocally(services, service) ==
    [i \in DOMAIN services |->
       IF services[i].id = service.id
       THEN [services[i] EXCEPT
                !.status = IF service.status = "running" THEN "stopped"
                           ELSE "running",
                !.desiredCount = IF service.status = "stopped" THEN 0
                                 ELSE service.desiredCount]
       ELSE services[i]]

\* the action updateService passes to logAction
UpdateAudit(service) ==
    IF service.status = "running" THEN "stop_service" ELSE "start_service"

\* updateService, called for an EC2 or ECS entry of the list as the
\* dashboard calls it, up to its first await
updateServiceStart ==
    \E i \in DOMAIN servicesStore.services :
        /\ servicesStore.services[i].type \in {"ec2", "ecs"}
        /\ calls < MaxCalls
        /\ calls' = calls + 1
        /\ pending' = pending (+) SetToBag({Call("updateService",
               servicesStore,
               <<handleServiceAction(servicesStore.services[i])>>)})
        /\ audited' = ""
        /\ UNCHANGED servicesStore
        /\ OutsideDashboard

\* updateService from its awaits on; the AWS calls having succeeded or
\* failed ("updating mock data instead"), the local update is the same
updateService ==
    \E u \in BagToSet(pending) :
        /\ u.fn = "updateService"
        /\ servicesStore' =
               [servicesStore EXCEPT
                   !.services = UpdatedLocally(@, u.service[1])]
        /\ pending' = pending (-) SetToBag({u})
        /\ audited' = UpdateAudit(u.service[1])
        /\ UNCHANGED calls
        /\ OutsideDashboard

ServicesNext ==
    \/ \E region \in Regions : setSelectedRegion(region)
    \/ \E cluster \in ClusterNames : setSelectedEcsCluster(cluster)
    \/ \E filter \in EcsFilters : setEcsFilter(filter)
    \/ loadEcsClusters
    \/ loadServices
    \/ updateServiceStart
    \/ updateService

ServicesSpec == Init /\ [][ServicesNext]_vars

-----------------------------------------------------------------------------
(* Properties *)

\* the step received a request (it did not resume a suspended one)
Received == served' = served + 1

\* the waiting records a step added to a bag
Parked(before, after) ==
    {w \in BagToSet(after) : CopiesIn(w, after) > CopiesIn(w, before)}

\* C1: a login for a username that has no account and a login with a wrong
\* password for a username that has one are answered alike, 401 "Invalid
\* credentials" with no user in the body, whatever the account's role or
\* approval flag, and neither changes a table.
C1_LoginFailuresAlike ==
    [][LET noSuchUser ==
               /\ Received
               /\ last'.op = "login"
               /\ LoginValid(last'.about.username, last'.about.password)
               /\ \A u \in users : u.username # last'.about.username
           wrongPassword ==
               /\ ~Received
               /\ last'.op = "login"
               /\ last'.about.user.password.of
                      # <<PASSWORD_PEPPER, last'.about.password>>
       IN  (noSuchUser \/ wrongPassword) =>
               /\ last'.status = 401
               /\ last'.message = "Invalid credentials"
               /\ last'.user = {}
               /\ UNCHANGED tables]_vars

\* C1 witness: an unapproved account's login with a wrong password was
\* answered 401.
C1_UnapprovedWrongPassword ==
    /\ last.op = "login"
    /\ "user" \in DOMAIN last.about
    /\ ~last.about.user.isApproved
    /\ last.about.user.password.of # <<PASSWORD_PEPPER, last.about.password>>
    /\ last.status = 401

\* C2: no two rows of users share a username or an email, however the
\* register requests interleave at their await.
C2_UsernamesAndEmailsUnique ==
    \A u1, u2 \in users :
        u1 # u2 => /\ u1.id # u2.id
                   /\ u1.username # u2.username
                   /\ u1.email # u2.email

\* C2 witness: a register request passed the existence check, and at its
\* insert the username or email was taken by then.
C2_RegisterLostRace ==
    /\ last.op = "register"
    /\ last.status = 500
    /\ \E u \in users :
         u.username = last.about.username \/ u.email = last.about.email

\* C3: a valid register request that loses the race for its username is
\* answered 400 "Username or email already exists".
C3_LoserGetsConflict ==
    ( /\ last.op = "register"
      /\ RegisterValid(last.about.username, last.about.password,
                       last.about.email, last.about.role)
      /\ last.status # 201
      /\ \E u \in users : u.username = last.about.username )
    => /\ last.status = 400
       /\ last.message = "Username or email already exists"

\* C4: for every invitation token at most one accept-invitation request
\* creates an account.
C4_TokenCreatesOneAccount ==
    \A t \in BagToSet(created) : CopiesIn(t, created) <= 1

\* C5: an accept-invitation request whose token another request has accepted
\* by the time it is answered gets 404.
C5_ConsumedTokenNotFound ==
    ( /\ last.op = "accept"
      /\ AcceptValid(last.about.password)
      /\ CopiesIn(last.about.token, created)
             > (IF last.status = 201 THEN 1 ELSE 0) )
    => last.status = 404

\* C6: an accept-invitation request that arrives when its pending invitation
\* has expiresAt before the current time is answered 400 "Invitation has
\* expired" and goes no further: users and user_invitations stay as they
\* are, and the request is not left waiting to create the account.
C6_ExpiredInvitationRejected ==
    [][/\ ( /\ Received
            /\ last'.op = "accept"
            /\ AcceptValid(last'.about.password)
            /\ \E i \in invitations :
                 /\ i.invitationToken = last'.about.token
                 /\ i.status = "pending"
                 /\ i.expiresAt < clock )
          => /\ last'.status = 400
             /\ last'.message = "Invitation has expired"
             /\ UNCHANGED tables
       /\ \A w \in Parked(acceptWait, acceptWait') :
             ~(w.invitation.expiresAt < clock)]_vars

\* C6 witness: an accept request for an invitation still stored as pending,
\* past its expiresAt, was answered 400.
C6_ExpiredPendingSeen ==
    /\ last.op = "accept"
    /\ last.status = 400
    /\ last.message = "Invitation has expired"
    /\ \E i \in invitations :
         /\ i.invitationToken = last.about.token
         /\ i.status = "pending"
         /\ i.expiresAt < clock

\* C7: an invitation becomes accepted only in a step that creates its
\* account (approved, with the invitation's username, role and issuer), and
\* a step that creates an account from an invitation leaves that
\* invitation's row marked accepted.
C7_AcceptAtomic ==
    [][/\ \A i \in invitations' \ invitations :
             i.status = "accepted" =>
                 \E u \in users' \ users :
                     /\ u.username = i.username
                     /\ u.role = i.role
                     /\ u.invitedBy = i.invitedBy
                     /\ u.isApproved
       /\ \A u \in users' \ users :
             u.invitedBy # NULL =>
                 /\ u.isApproved
                 /\ \E i \in invitations' :
                      /\ i.status = "accepted"
                      /\ i.username = u.username
                      /\ i.role = u.role
                      /\ i.invitedBy = u.invitedBy]_vars

\* C8: a decision on an existing approval request, made with the reviewerId
\* of an account that does not hold the admin role, is answered 403 and
\* changes no table.
C8_DecideNeedsAdmin ==
    [][( /\ last'.op = "decide"
         /\ DecideValid(last'.about.status)
         /\ \E r \in requests : r.id = last'.about.id
         /\ \E u \in users :
              u.id = last'.about.reviewerId /\ u.role # "admin" )
       => /\ last'.status = 403
          /\ UNCHANGED tables]_vars

\* C9: a decision on an id that matches no approval request is answered 404
\* and changes no table.
C9_DecideUnknownRequest ==
    [][( /\ last'.op = "decide"
         /\ DecideValid(last'.about.status)
         /\ \A r \in requests : r.id # last'.about.id )
       => /\ last'.status = 404
          /\ UNCHANGED tables]_vars

\* C10: once a request is rejected it stays rejected and its account stays
\* unapproved.
C10_RejectedIsFinal ==
    [][\A r \in requests :
          r.status = "rejected" =>
              /\ \A r2 \in requests' : r2.id = r.id => r2.status = "rejected"
              /\ \A u \in users' : u.id = r.userId => ~u.isApproved]_vars

\* C11: a decision "approved" that commits on request r sets isApproved on
\* the account r.userId and leaves every other account, and every other
\* column of that account, as it was.
C11_ApproveFlipsOnlyTarget ==
    [][( /\ last'.op = "decide"
         /\ last'.status = 200
         /\ last'.about.status = "approved" )
       => \E r \in requests :
            /\ r.id = last'.about.id
            /\ \E u \in users : u.id = r.userId
            /\ \A u \in users :
                 IF u.id = r.userId
                 THEN [u EXCEPT !.isApproved = TRUE] \in users'
                 ELSE u \in users'
            /\ Cardinality(users') = Cardinality(users)]_vars

\* C11 witness: a request was approved while another account was waiting
\* for approval, and that account is still unapproved.
C11_OtherStaysUnapproved ==
    /\ last.op = "decide"
    /\ last.status = 200
    /\ last.about.status = "approved"
    /\ \E r \in requests, u, v \in users :
         /\ r.id = last.about.id
         /\ u.id = r.userId
         /\ u.isApproved
         /\ v.id # u.id
         /\ ~v.isApproved

\* a DELETE /api/users/:id whose target is the account named "admin" or the
\* caller's own id
DeleteProtected(about) ==
    \/ \E u \in users : u.id = about.id /\ u.username = "admin"
    \/ about.id = about.adminId

\* C12 as stated: such a delete is always answered 403.
C12_ProtectedDeleteIs403 ==
    [][(last'.op = "delete_user" /\ DeleteProtected(last'.about))
       => last'.status = 403 /\ UNCHANGED tables]_vars

\* C12: exactly one account named "admin" exists in every state; a delete
\* whose target is that account, or the caller's own id, changes no table
\* and is answered 403 when adminId names an account, 404 "Admin not found"
\* when it names none.
C12_OneAdminAccount ==
    /\ [](Cardinality(UsersByName("admin")) = 1)
    /\ [][(last'.op = "delete_user" /\ DeleteProtected(last'.about))
          => /\ UNCHANGED tables
             /\ IF \E u \in users : u.id = last'.about.adminId
                THEN last'.status = 403
                ELSE /\ last'.status = 404
                     /\ last'.message = "Admin not found"]_vars

\* C12 witness: a second admin asked to delete the account named "admin"
\* and was refused.
C12_SecondAdminRefused ==
    /\ last.op = "delete_user"
    /\ last.status = 403
    /\ last.message = "Cannot delete the default admin user"
    /\ \E u, v \in users :
         /\ u.id = last.about.id
         /\ u.username = "admin"
         /\ v.id = last.about.adminId
         /\ v.id # u.id
         /\ v.role = "admin"

\* the ids of the accounts deleted so far: AUTOINCREMENT hands every id out
\* once, and only DELETE /api/users/:id removes a row of users
DeletedUsers == {id \in 1..seq.users : \A u \in users : u.id # id}

\* C13: once an account is deleted, no row of user_logs, approval_requests
\* or user_preferences carries its id, in the state the delete leaves and in
\* every later one, whatever login or log-action request for that account
\* was suspended or arrives afterwards.
C13_DeletedUserLeavesNoRows ==
    \A id \in DeletedUsers :
        /\ \A l \in logs : l.userId # id
        /\ \A r \in requests : r.userId # id
        /\ \A p \in preferences : p.userId # id

\* C13 witness: a login read its account, the account was deleted while
\* bcrypt.compare ran, and the login's insert into user_logs failed.
C13_LoginOutlivedAccount ==
    /\ last.op = "login"
    /\ last.status = 500
    /\ last.about.user.id \in DeletedUsers

\* the approval requests of an account
RequestsOf(userId) == {r \in requests : r.userId = userId}

\* C14: a register request answered 201 adds, in that one step, one account
\* with isApproved false and one approval request, pending, for that account
\* and its role, and nothing else to either table; and in every state each
\* account that registered itself has exactly one approval request.
C14_RegisterCreatesOneRequest ==
    /\ [](\A u \in users :
            (u.invitedBy = NULL /\ ~IsDefaultAdmin(u))
                => Cardinality(RequestsOf(u.id)) = 1)
    /\ [][(last'.op = "register" /\ last'.status = 201)
          => /\ users \subseteq users'
             /\ requests \subseteq requests'
             /\ Cardinality(users' \ users) = 1
             /\ Cardinality(requests' \ requests) = 1
             /\ \A u \in users' \ users, r \in requests' \ requests :
                  /\ ~u.isApproved
                  /\ u.username = last'.about.username
                  /\ u.role = last'.about.role
                  /\ r.status = "pending"
                  /\ r.userId = u.id
                  /\ r.requestedRole = u.role]_vars

\* C14 witness: a registration for the write role was answered 201 while
\* another self-registered account already had its request.
C14_SecondRegistration ==
    /\ last.op = "register"
    /\ last.status = 201
    /\ last.about.role = "write"
    /\ \E u, v \in users :
         /\ u.username = last.about.username
         /\ v.id # u.id
         /\ v.invitedBy = NULL
         /\ ~IsDefaultAdmin(v)
         /\ RequestsOf(u.id) # {}
         /\ RequestsOf(v.id) # {}

\* C15: an invite-user request adds an invitation or an audit entry only
\* when adminId names an account that holds the admin role at that moment,
\* and a well-formed request in the name of a write or readonly account is
\* answered 403 and changes no table.
C15_InviteNeedsAdmin ==
    [][last'.op = "invite" =>
         /\ (invitations' # invitations \/ logs' # logs)
                => \E u \in users :
                     u.id = last'.about.adminId /\ u.role = "admin"
         /\ ( /\ InviteValid(last'.about.username, last'.about.email,
                              last'.about.role)
              /\ \E u \in users :
                   /\ u.id = last'.about.adminId
                   /\ u.role \in {"write", "readonly"} )
                => last'.status = 403 /\ UNCHANGED tables]_vars

\* C15 witness: an approved account with the write role asked for an
\* invitation and got 403.
C15_WriteCallerForbidden ==
    /\ last.op = "invite"
    /\ last.status = 403
    /\ \E u \in users :
         /\ u.id = last.about.adminId
         /\ u.role = "write"
         /\ u.isApproved

\* C16: a well-formed invite-user request by an admin whose username or
\* email is held by an account or by an invitation row, pending or accepted,
\* is answered 400 and changes no table.
C16_InviteConflictIs400 ==
    [][( /\ last'.op = "invite"
         /\ InviteValid(last'.about.username, last'.about.email,
                         last'.about.role)
         /\ \E u \in users :
              u.id = last'.about.adminId /\ u.role = "admin"
         /\ \/ \E u \in users : \/ u.username = last'.about.username
                                 \/ u.email = last'.about.email
            \/ \E i \in invitations : \/ i.username = last'.about.username
                                       \/ i.email = last'.about.email )
       => last'.status = 400 /\ UNCHANGED tables]_vars

\* C17: while a pending invitation that has not expired holds a username or
\* an email, no register request for that username or email is answered
\* 201, and an accept request for such an invitation does not fail on an
\* account that registered itself under the invitation's username or email.
C17_InvitationReservesName ==
    [][/\ ( /\ last'.op = "register"
            /\ \E i \in invitations :
                 /\ i.status = "pending"
                 /\ ~Expired(i, clock)
                 /\ \/ i.username = last'.about.username
                    \/ i.email = last'.about.email )
          => last'.status # 201
       /\ ( /\ last'.op = "accept"
            /\ ~Received
            /\ last'.about.invitation \in invitations
            /\ \E u \in users :
                 /\ u.invitedBy = NULL
                 /\ \/ u.username = last'.about.invitation.username
                    \/ u.email = last'.about.invitation.email )
          => last'.status = 201]_vars

\* C18: an accept request creates an account only while the invitation of
\* its token is in user_invitations: once the invitation is deleted, no
\* request with its token is answered 201, whenever it read the invitation.
C18_DeletedInvitationCreatesNothing ==
    [][\A t \in BagToSet(created') :
          CopiesIn(t, created') > CopiesIn(t, created)
              => \E i \in invitations : i.invitationToken = t]_vars

\* the role check as specified: no requirement and "readonly" admit every
\* role, "write" admits write and admin, "admin" admits admin
RoleAdmitted(requiredRole, role) ==
    \/ requiredRole \in {"", "readonly"}
    \/ requiredRole = "write" /\ role \in {"write", "admin"}
    \/ requiredRole = "admin" /\ role = "admin"

C20_LoginAnswers ==
    [][/\ (last'.op = "login" /\ last'.status = 200)
          => /\ ~Received
             /\ BcryptCompare(PASSWORD_PEPPER, last'.about.password,
                              last'.about.user.password)
             /\ last'.about.user.isApproved
             /\ \E u \in users' :
                  u.id = last'.about.user.id /\ u.lastLogin = clock
             /\ logs \subseteq logs'
             /\ Cardinality(logs' \ logs) = 1
             /\ \A l \in logs' \ logs :
                  l.action = "login" /\ l.userId = last'.about.user.id
       /\ ( /\ last'.op = "login"
            /\ ~Received
            /\ BcryptCompare(PASSWORD_PEPPER, last'.about.password,
                             last'.about.user.password)
            /\ ~last'.about.user.isApproved )
          => /\ last'.status = 403
             /\ last'.user = {PublicUser(last'.about.user, FALSE)}
             /\ \A u \in last'.user : "password" \notin DOMAIN u
             /\ UNCHANGED tables
       /\ ( /\ last.op = "login"
            /\ last.status = 403
            /\ loginCalls' = loginCalls - 1 )
          => /\ store'.user = last.user
             /\ \A u \in store'.user : ~u.isApproved]_vars

\* C20 witness: the store holds an unapproved user after a login that was
\* answered 403.
C20_StoreHoldsPendingUser ==
    /\ store.error = "Account pending approval"
    /\ ~store.isLoading
    /\ \E u \in store.user : ~u.isApproved


\* the audit rows with action "logout"
LogoutRows(rows) == {l \in rows : l.action = "logout"}

\* C21: a logout call from a store that holds a user, approved or not, can
\* always come to its end, and the step that ends it leaves the store's user
\* null, whether log-action answered 201, answered 500 or never answered;
\* a log-action request for a logout that is answered 201 has appended
\* exactly one audit row, with action "logout" and that user's id and name
C21_LogoutClearsUser ==
    /\ [](logoutCalls # EmptyBag =>
            ENABLED (StoreLogoutSettled \/ StoreLogoutFailed))
    /\ [][BagCardinality(logoutCalls') < BagCardinality(logoutCalls) =>
            store'.user = {}]_vars
    /\ [][(last'.op = "log_action" /\ last'.status = 201
           /\ last'.about.action = "logout") =>
            /\ logs \subseteq logs'
            /\ Cardinality(logs' \ logs) = 1
            /\ \A l \in logs' \ logs :
                 /\ l.action = "logout"
                 /\ l.userId = last'.about.userId
                 /\ l.username = last'.about.username]_vars

\* C21 witness: every logout call has ended, the store holds no user, and
\* the one logout row in the audit log is that of an account still waiting
\* for approval
C21_UnapprovedLoggedOut ==
    /\ logoutCalls = EmptyBag
    /\ store.user = {}
    /\ Cardinality(LogoutRows(logs)) = 1
    /\ \E l \in LogoutRows(logs), u \in users :
         u.id = l.userId /\ ~u.isApproved

\* C22: a step never changes a user_logs row, and it removes a row only when
\* it is a delete-user answered 200 whose target id is the row's userId
C22_AuditLogAppendOnly ==
    [][\A l \in logs :
         /\ \A m \in logs' : m.id = l.id => m = l
         /\ l \notin logs' =>
              /\ last'.op = "delete_user"
              /\ last'.status = 200
              /\ last'.about.id = l.userId]_vars

\* C22 witness: a delete-user has just removed the rows of its target while
\* an older row of another account is still there
C22_CascadeKeptOtherRows ==
    /\ last.op = "delete_user"
    /\ last.status = 200
    /\ seq.logs > Cardinality(logs)
    /\ \E l \in logs : l.id < seq.logs /\ l.userId # last.about.id

\* C23: a login that has passed the password and approval checks is answered
\* 200 even if its lastLogin UPDATE or its user_logs INSERT fails, and an
\* invite-user or delete-invitation whose change to user_invitations stands
\* is answered 201 or 200, whatever became of its user_logs INSERT
C23_SideWriteNeverFails ==
    [][/\ ( /\ last'.op = "login"
            /\ ~Received
            /\ LoginOutcome(last'.about.user,
                   BcryptCompare(PASSWORD_PEPPER, last'.about.password,
                                 last'.about.user.password)) = "ok" )
          => last'.status = 200
       /\ ( /\ last'.op \in {"invite", "delete_invitation"}
            /\ invitations' # invitations )
          => last'.status \in {200, 201}]_vars

\* C25: a request whose status is no longer "pending" keeps its status,
\* reviewedBy and reviewedAt in every later step, and in every state an
\* account that has an approval request is approved exactly when that
\* request's status is "approved"
C25_DecidedOnce ==
    /\ [][\A r \in requests : \A r2 \in requests' :
            (r.status # "pending" /\ r2.id = r.id) =>
                /\ r2.status = r.status
                /\ r2.reviewedBy = r.reviewedBy
                /\ r2.reviewedAt = r.reviewedAt]_vars
    /\ [](\A r \in requests : \A u \in UsersById(r.userId) :
            u.isApproved <=> r.status = "approved")

\* the actions the server logs on behalf of an admin
AdminActions ==
    {"invite_user", "delete_invitation", "approve_user", "reject_user",
     "delete_user"}

\* C26: every user_logs row a step adds for an admin action carries the
\* username that the account named by the row's userId has when the row is
\* written
C26_AdminRowsCarryUsername ==
    [][\A l \in logs' \ logs :
         l.action \in AdminActions =>
             \E u \in UsersById(l.userId) : u.username = l.username]_vars

\* the operations that C27 names
MutatingOps ==
    {"login", "register", "invite", "accept", "delete_invitation", "decide",
     "delete_user"}

\* C27: a step that answers one of these operations with 400, 401, 403, 404
\* or 500 leaves every table as it was
C27_ErrorLeavesTables ==
    [][( /\ last'.op \in MutatingOps
         /\ last'.status \in {400, 401, 403, 404, 500} )
       => UNCHANGED tables]_vars

\* C27 witness: a decision on an existing, still pending request has just
\* been answered 500 (its reviewer is no account), and the request is as
\* it was
C27_FailedDecisionRolledBack ==
    /\ last.op = "decide"
    /\ last.status = 500
    /\ RequestsById(last.about.id) # {}
    /\ \A r \in RequestsById(last.about.id) :
         r.status = "pending" /\ r.reviewedBy = NULL

\* the accounts of the next state whose id no account has now
NewUsers == {u \in users' : UsersById(u.id) = {}}

\* C28: in every state an account with role admin is approved; a step that
\* creates an account with role admin is an accept-invitation answered 201
\* for an invitation with role admin, an account that register creates has
\* role write or readonly, and every invitation is issued by an account
\* whose role is admin when it is issued
C28_AdminsAreApproved ==
    /\ [](\A u \in users : u.role = "admin" => u.isApproved)
    /\ [][\A u \in NewUsers :
            /\ u.role = "admin" =>
                 /\ last'.op = "accept"
                 /\ last'.status = 201
                 /\ last'.about.invitation.role = "admin"
                 /\ u.username = last'.about.invitation.username
            /\ last'.op = "register" => u.role \in {"write", "readonly"}]_vars
    /\ [][\A i \in invitations' :
            InvitationsById(i.id) = {} =>
                \E a \in UsersById(i.invitedBy) : a.role = "admin"]_vars

\* C28 witness: an invitation with role admin has just been accepted, and
\* there is a second admin account, approved
C28_InvitedAdmin ==
    /\ last.op = "accept"
    /\ last.status = 201
    /\ \E u \in users :
         u.role = "admin" /\ u.username # "admin" /\ u.isApproved

\* C24: in staging and production a process whose PASSWORD_PEPPER is empty
\* or absent once the secrets are loaded exits at the pepper check; a
\* process that has exited there has opened no database, created no account
\* and served no request; and wherever an account exists, a request has been
\* received or a handler is suspended, the pepper is not empty, nor is the
\* pepper inside any stored hash
C24_NoStartWithoutPepper ==
    /\ [][( /\ proc.pc = "loaded"
            /\ SecretsEnv(proc.nodeEnv)
            /\ proc.env = ""
            /\ proc' # proc )
          => proc'.pc = "exited" /\ proc'.exitedAt = "pepper"]_vars
    /\ [](proc.pc = "exited" /\ proc.exitedAt = "pepper" =>
            tables = <<{}, {}, {}, {}, {},
                       [users |-> 0, requests |-> 0, invitations |-> 0,
                        logs |-> 0]>> /\ served = 0)
    /\ [](( /\ SecretsEnv(proc.nodeEnv)
            /\ \/ users # {}
               \/ served > 0
               \/ proc.pc \in {"checked", "opened", "listening"} )
          => /\ PASSWORD_PEPPER # ""
             /\ \A u \in users : u.password.of[1] # "")

\* C24 witness: a production process left without a pepper by the secret
\* loading has exited at the check, with no table written and no request
\* served
C24_ExitedAtPepperCheck ==
    /\ proc.nodeEnv = "production"
    /\ proc.pc = "exited"
    /\ proc.exitedAt = "pepper"
    /\ users = {}
    /\ served = 0

\* the loads of the services store that have not completed
PendingLoads ==
    {l \in BagToSet(pending) : l.fn \in {"loadServices", "loadEcsClusters"}}

\* C29: whenever no load of the services store is outstanding, every entry
\* of services has the region that is selected
C29_ServicesOfSelectedRegion ==
    PendingLoads = {} =>
        \A i \in DOMAIN servicesStore.services :
            servicesStore.services[i].region = servicesStore.selectedRegion

\* the services of the list whose id is that of a given service
Matching(services, service) ==
    {i \in DOMAIN services : services[i].id = service.id}

\* C30: the step that completes updateService(service) leaves the entries
\* with the id of service with status service.status and every other entry
\* as it was, and passes start_service to logAction when service.status is
\* "running" and stop_service when it is "stopped"
C30_UpdateServiceSetsStatus ==
    [][\A u \in BagToSet(pending) :
         ( /\ u.fn = "updateService"
           /\ pending' = pending (-) SetToBag({u}) )
         => LET service == u.service[1]
                before == servicesStore.services
                after == servicesStore'.services
            IN  /\ DOMAIN after = DOMAIN before
                /\ \A i \in DOMAIN before :
                     IF i \in Matching(before, service)
                     THEN after[i].status = service.status
                     ELSE after[i] = before[i]
                /\ audited' = IF service.status = "running"
                              THEN "start_service" ELSE "stop_service"]_vars

====
